---- MODULE Spec2Model ----
(***************************************************************************)
(* Model of load_and_concat_profiles (notebooks/0.download-data/           *)
(* 2.preprocessing.ipynb): argument validation, existence checks or        *)
(* directory discovery, the per-file load and projection, and the          *)
(* concatenation.  One behaviour is two successive calls with the same     *)
(* arguments on the same file system.                                      *)
(***************************************************************************)
EXTENDS Integers, Sequences, FiniteSets

\* Longest explicit list of plates, longest list of shared features.
MaxPlates == 3
MaxShared == 2

Range(s) == {s[k] : k \in 1..Len(s)}
SeqsUpTo(S, n) == UNION {[1..k -> S] : k \in 0..n}
Perms(S) == {f \in [1..Cardinality(S) -> S] : \A a, b \in DOMAIN f : f[a] = f[b] => a = b}

----------------------------------------------------------------------------
\* Column names and tables.

Meta(s) == [prefix |-> "Metadata", stem |-> s]
Feat(s) == [prefix |-> "Cells", stem |-> s]

\* A column is a metadata column by its name's prefix.
IsMetadataColumn(c) == c.prefix = "Metadata"
IsFeatureColumn(c) == ~IsMetadataColumn(c)

\* (meta_cols, feature_cols) of a table, each in the table's column order.
split_meta_and_features(df) ==
    <<SelectSeq(df.cols, IsMetadataColumn), SelectSeq(df.cols, IsFeatureColumn)>>

T1 == [cols |-> <<Meta("Plate"), Meta("Well"), Feat("F1"), Feat("F2")>>,
       rows |-> << <<1, 1, 5, 7>>, <<1, 2, 3, 9>>, <<1, 1, 5, 7>> >>]
T2 == [cols |-> <<Meta("Plate"), Meta("Well"), Feat("F1"), Feat("F2")>>,
       rows |-> << <<2, 1, 4, 8>>, <<1, 1, 5, 7>> >>]
T3 == [cols |-> <<Meta("Well"), Meta("Plate"), Feat("F1"), Feat("F2")>>,
       rows |-> << <<3, 1, 6, 2>> >>]
T4 == [cols |-> <<Meta("Plate"), Meta("Well"), Feat("F1")>>,
       rows |-> << <<2, 2, 6>>, <<2, 3, 1>> >>]
T5 == [cols |-> <<Meta("Plate"), Feat("F2"), Feat("F1")>>,
       rows |-> << <<2, 8, 4>> >>]

NoTable == [cols |-> <<>>, rows |-> <<>>]

----------------------------------------------------------------------------
\* The file system: paths, and what each holds.

P1 == [dir |-> "profiles", stem |-> "P1", ext |-> "parquet"]
P2 == [dir |-> "profiles", stem |-> "P2", ext |-> "parquet"]
P3 == [dir |-> "profiles/sub", stem |-> "P3", ext |-> "parquet"]
Notes == [dir |-> "profiles", stem |-> "notes", ext |-> "csv"]
Paths == {P1, P2, P3, Notes}
PlatePaths == {P1, P2, P3}

Absent == [kind |-> "absent", table |-> NoTable]
NotParquet == [kind |-> "other", table |-> NoTable]
Parquet(t) == [kind |-> "parquet", table |-> t]

FileSystems ==
    {[p \in Paths |-> CASE p = P1 -> a [] p = P2 -> b [] p = P3 -> Parquet(T2)
                        [] OTHER -> NotParquet] :
        a \in {Parquet(T1), Parquet(T3), Absent},
        b \in {Parquet(T2), Parquet(T4), Parquet(T5), Absent}}

----------------------------------------------------------------------------
\* Arguments.

None == [given |-> FALSE, islist |-> TRUE, value |-> <<>>]
Some(v) == [given |-> TRUE, islist |-> TRUE, value |-> v]
PathObj(p) == [ispath |-> TRUE, path |-> p]
StrObj(p) == [ispath |-> FALSE, path |-> p]

DirArgs == {[type |-> t, dir |-> "profiles"] : t \in {"str", "Path", "int"}}
SharedArgs == {None} \cup {Some(v) : v \in SeqsUpTo({Feat("F1"), Feat("F2"), Meta("Plate")}, MaxShared)}
PlateArgs ==
    {None}
    \cup {Some(v) : v \in SeqsUpTo({PathObj(p) : p \in PlatePaths}, MaxPlates)}
    \cup {[given |-> TRUE, islist |-> FALSE, value |-> <<PathObj(P1)>>],
          Some(<<StrObj(P1)>>)}

----------------------------------------------------------------------------
\* Errors.

NoError == [kind |-> "none", paths |-> {}, cols |-> {}, dirs |-> {}]
Err(k, ps, cs, ds) == [kind |-> k, paths |-> ps, cols |-> cs, dirs |-> ds]

VARIABLES fs, profile_dir, shared_features, specific_plates,
          call, pc, status, i, files_to_load, loaded_profiles, readLog,
          result, error, first

vars == <<fs, profile_dir, shared_features, specific_plates,
          call, pc, status, i, files_to_load, loaded_profiles, readLog,
          result, error, first>>

args == <<fs, profile_dir, shared_features, specific_plates>>

NoOutcome == [status |-> "none", result |-> NoTable, error |-> NoError,
              files |-> <<>>, readLog |-> <<>>]

Init ==
    /\ fs \in FileSystems
    /\ profile_dir \in DirArgs
    /\ shared_features \in SharedArgs
    /\ specific_plates \in PlateArgs
    /\ call = 1
    /\ pc = "validate"
    /\ status = "running"
    /\ i = 1
    /\ files_to_load = <<>>
    /\ loaded_profiles = <<>>
    /\ readLog = <<>>
    /\ result = NoTable
    /\ error = NoError
    /\ first = NoOutcome

Raise(e) ==
    /\ status' = "raised"
    /\ error' = e
    /\ UNCHANGED <<pc, i, files_to_load, loaded_profiles, readLog, result>>

----------------------------------------------------------------------------
\* Library operations the function calls, by what they do.

Ok(t) == [ok |-> TRUE, table |-> t, error |-> NoError]
Fail(e) == [ok |-> FALSE, table |-> NoTable, error |-> e]

\* pl.read_parquet(file): the file's table, or the reader's error.
read_parquet(file) ==
    CASE fs[file].kind = "parquet" -> Ok(fs[file].table)
      [] fs[file].kind = "absent" -> Fail(Err("FileNotFoundError", {file}, {}, {}))
      [] OTHER -> Fail(Err("ComputeError", {}, {}, {}))

IndexOf(cols, c) == CHOOSE k \in 1..Len(cols) : cols[k] = c

HasDuplicate(names) == \E a, b \in 1..Len(names) : a # b /\ names[a] = names[b]

Project(df, names) ==
    [cols |-> names,
     rows |-> [r \in 1..Len(df.rows) |->
                 [k \in 1..Len(names) |-> df.rows[r][IndexOf(df.cols, names[k])]]]]

\* A projection that keeps the requested names the table has and skips the others.
select_lenient(df, names) ==
    LET IsCol(c) == c \in Range(df.cols)
    IN  {Ok(Project(df, SelectSeq(names, IsCol)))}

\* DataFrame.select(names): every name must be a column of the table
\* (ColumnNotFoundError, naming the column) and no name may repeat
\* (DuplicateError).  Which of the two is reported when both apply is the
\* library's choice.
select(df, names) ==
    LET missing == Range(names) \ Range(df.cols)
    IN  {Fail(Err("ColumnNotFoundError", {}, {c}, {})) : c \in missing}
        \cup (IF HasDuplicate(names) THEN {Fail(Err("DuplicateError", {}, {}, {}))} ELSE {})
        \cup (IF missing = {} /\ ~HasDuplicate(names) THEN {Ok(Project(df, names))} ELSE {})

RECURSIVE StackRows(_)
StackRows(tables) ==
    IF tables = <<>> THEN <<>> ELSE Head(tables).rows \o StackRows(Tail(tables))

RECURSIVE Unique(_)
Unique(rows) ==
    IF rows = <<>> THEN <<>>
    ELSE LET rest == Unique(SubSeq(rows, 1, Len(rows) - 1))
             last == rows[Len(rows)]
         IN  IF last \in Range(rest) THEN rest ELSE Append(rest, last)

RECURSIVE StackRowsReversed(_)
StackRowsReversed(tables) ==
    IF tables = <<>> THEN <<>> ELSE StackRowsReversed(Tail(tables)) \o Head(tables).rows

\* A stack that puts the last table first.
vstack_reversed(tables) == StackRowsReversed(tables)

\* A stack that drops repeated rows.
vstack_unique(tables) == Unique(StackRows(tables))

\* The rows of the tables, one table after the other, each in its own order.
vstack(tables) == StackRows(tables)

RECURSIVE UnionCols(_)
UnionCols(tables) ==
    IF tables = <<>> THEN <<>>
    ELSE LET rest == UnionCols(SubSeq(tables, 1, Len(tables) - 1))
             IsNew(c) == c \notin Range(rest)
         IN  rest \o SelectSeq(tables[Len(tables)].cols, IsNew)

\* A concatenation that takes the union of the columns and fills the cells a
\* table lacks with a null (-1).
pl_concat_diagonal(tables) ==
    IF tables = <<>> THEN Fail(Err("ValueError", {}, {}, {}))
    ELSE LET allcols == UnionCols(tables)
             pad(t) == [r \in 1..Len(t.rows) |->
                          [k \in 1..Len(allcols) |->
                             IF allcols[k] \in Range(t.cols)
                             THEN t.rows[r][IndexOf(t.cols, allcols[k])] ELSE -1]]
         IN  Ok([cols |-> allcols,
                 rows |-> StackRows([k \in 1..Len(tables) |->
                                       [cols |-> allcols, rows |-> pad(tables[k])]])])

\* pl.concat(tables, rechunk=True), how="vertical": no table is an error, and
\* every table must have the first table's column names in the same order.
pl_concat(tables) ==
    IF tables = <<>> THEN Fail(Err("ValueError", {}, {}, {}))
    ELSE IF \E k \in 1..Len(tables) : Len(tables[k].cols) # Len(tables[1].cols)
         THEN Fail(Err("ShapeError", {}, {}, {}))
    ELSE IF \E k \in 1..Len(tables) : tables[k].cols # tables[1].cols
         THEN Fail(Err("SchemaError", {}, {}, {}))
    ELSE Ok([cols |-> tables[1].cols, rows |-> vstack(tables)])

----------------------------------------------------------------------------
\* load_and_concat_profiles, statement by statement.

\* isinstance checks of profile_dir and specific_plates.
DirTypeOk(d) == d.type \in {"str", "Path"}
PlatesIsList(sp) == sp.islist
PlatesAllPaths(sp) == \A k \in 1..Len(sp.value) : sp.value[k].ispath

PlatePathsOf(sp) == [k \in 1..Len(sp.value) |-> sp.value[k].path]

\* `if specific_plates:` in place of `is not None`.
UseSpecificTruthy(sp) == sp.given /\ sp.value # <<>>

\* `specific_plates is not None`
UseSpecific(sp) == sp.given

\* An existence check that always succeeds.
path_exists_always(p) == TRUE

\* plate_path.exists()
path_exists(p) == fs[p].kind # "absent"

\* Every entry directly under the directory, whatever its suffix.
glob_all(d) == {p \in Paths : p.dir = d /\ fs[p].kind # "absent"}

\* profile_dir.glob("*.parquet"): the entries directly under the directory
\* whose name ends in .parquet.
glob_parquet(d) == {p \in Paths : p.dir = d /\ p.ext = "parquet" /\ fs[p].kind # "absent"}

\* The shared features before the metadata columns.
SelectListSwapped(meta_cols, shared) == shared \o meta_cols

\* meta_cols + shared_features
SelectList(meta_cols, shared) == meta_cols \o shared

\* A load that returns the table as read, whatever shared_features is.
load_profile_unfiltered(file) == {read_parquet(file)}

\* load_profile(file): read, split the columns, project when shared_features
\* is given.
load_profile(file) ==
    LET r == read_parquet(file)
    IN  IF ~r.ok THEN {r}
        ELSE IF shared_features.given
             THEN select(r.table, SelectList(split_meta_and_features(r.table)[1],
                                             shared_features.value))
             ELSE {r}

\* A list of loaded profiles that outlives the call.
StaleProfiles == loaded_profiles

\* The list comprehension builds a new list on every call.
FreshProfiles == <<>>

EnterLoad(files) == IF files = <<>> THEN "concat" ELSE "load"

ValidateArgs ==
    /\ status = "running" /\ pc = "validate"
    /\ IF ~DirTypeOk(profile_dir)
       THEN Raise(Err("TypeError", {}, {}, {}))
       ELSE IF specific_plates.given /\ ~PlatesIsList(specific_plates)
       THEN Raise(Err("TypeError", {}, {}, {}))
       ELSE IF specific_plates.given /\ ~PlatesAllPaths(specific_plates)
       THEN Raise(Err("TypeError", {}, {}, {}))
       ELSE /\ pc' = IF UseSpecific(specific_plates) THEN "exists" ELSE "glob"
            /\ i' = 1
            /\ UNCHANGED <<status, files_to_load, loaded_profiles, readLog, result, error>>
    /\ UNCHANGED <<args, call, first>>

\* One turn of the loop over specific_plates.
CheckExists ==
    /\ status = "running" /\ pc = "exists"
    /\ i <= Len(specific_plates.value)
    /\ LET plate_path == specific_plates.value[i].path
       IN  IF ~path_exists(plate_path)
           THEN Raise(Err("FileNotFoundError", {plate_path}, {}, {}))
           ELSE /\ i' = i + 1
                /\ UNCHANGED <<pc, status, files_to_load, loaded_profiles, readLog, result, error>>
    /\ UNCHANGED <<args, call, first>>

\* files_to_load = specific_plates, once the loop is over.
UseSpecificPlates ==
    /\ status = "running" /\ pc = "exists"
    /\ i > Len(specific_plates.value)
    /\ files_to_load' = PlatePathsOf(specific_plates)
    /\ pc' = EnterLoad(files_to_load')
    /\ i' = 1
    /\ UNCHANGED <<status, loaded_profiles, readLog, result, error>>
    /\ UNCHANGED <<args, call, first>>

\* files_to_load = list(profile_dir.glob("*.parquet")), in whatever order the
\* directory is listed.
Glob ==
    /\ status = "running" /\ pc = "glob"
    /\ \E found \in Perms(glob_parquet(profile_dir.dir)) :
         IF found = <<>>
         THEN Raise(Err("FileNotFoundError", {}, {}, {profile_dir.dir}))
         ELSE /\ files_to_load' = found
              /\ pc' = EnterLoad(found)
              /\ i' = 1
              /\ UNCHANGED <<status, loaded_profiles, readLog, result, error>>
    /\ UNCHANGED <<args, call, first>>

\* One turn of [load_profile(f) for f in files_to_load].
LoadProfile ==
    /\ status = "running" /\ pc = "load"
    /\ i <= Len(files_to_load)
    /\ readLog' = Append(readLog, files_to_load[i])
    /\ \E r \in load_profile(files_to_load[i]) :
         IF ~r.ok
         THEN /\ status' = "raised"
              /\ error' = r.error
              /\ UNCHANGED <<pc, i, loaded_profiles, result>>
         ELSE /\ loaded_profiles' = Append(loaded_profiles, r.table)
              /\ i' = i + 1
              /\ pc' = IF i = Len(files_to_load) THEN "concat" ELSE "load"
              /\ UNCHANGED <<status, result, error>>
    /\ UNCHANGED <<args, call, first, files_to_load>>

\* return pl.concat(loaded_profiles, rechunk=True)
Concat ==
    /\ status = "running" /\ pc = "concat"
    /\ LET r == pl_concat(loaded_profiles)
       IN  IF r.ok
           THEN /\ status' = "returned"
                /\ result' = r.table
                /\ UNCHANGED error
           ELSE /\ status' = "raised"
                /\ error' = r.error
                /\ UNCHANGED result
    /\ UNCHANGED <<args, call, first, pc, i, files_to_load, loaded_profiles, readLog>>

\* The same call again, on the same file system.
SecondCall ==
    /\ call = 1 /\ status # "running"
    /\ first' = [status |-> status, result |-> result, error |-> error,
                 files |-> files_to_load, readLog |-> readLog]
    /\ call' = 2
    /\ pc' = "validate"
    /\ status' = "running"
    /\ i' = 1
    /\ files_to_load' = <<>>
    /\ loaded_profiles' = FreshProfiles
    /\ readLog' = <<>>
    /\ result' = NoTable
    /\ error' = NoError
    /\ UNCHANGED args

Next ==
    \/ ValidateArgs
    \/ CheckExists
    \/ UseSpecificPlates
    \/ Glob
    \/ LoadProfile
    \/ Concat
    \/ SecondCall

Spec == Init /\ [][Next]_vars

----------------------------------------------------------------------------
\* Vocabulary of the properties.

Done == status # "running"
WellTyped ==
    /\ DirTypeOk(profile_dir)
    /\ specific_plates.given => PlatesIsList(specific_plates) /\ PlatesAllPaths(specific_plates)
Explicit == WellTyped /\ specific_plates.given
Discover == WellTyped /\ ~specific_plates.given
Listed == PlatePathsOf(specific_plates)

Min(S) == CHOOSE x \in S : \A y \in S : x <= y
Count(seq, x) == Cardinality({k \in 1..Len(seq) : seq[k] = x})
SameBag(s, t) == \A x \in Range(s) \cup Range(t) : Count(s, x) = Count(t, x)
IsPrefix(s, t) == Len(s) <= Len(t) /\ s = SubSeq(t, 1, Len(s))

RECURSIVE SumTo(_, _)
SumTo(f, n) == IF n = 0 THEN 0 ELSE f[n] + SumTo(f, n - 1)

Source(p) == fs[p].table
MetaOf(t) == split_meta_and_features(t)[1]
FeaturesOf(t) == split_meta_and_features(t)[2]
Cell(t, r, c) == t.rows[r][IndexOf(t.cols, c)]

\* The files directly under the directory whose name ends in .parquet.
InDirectory ==
    {p \in Paths : p.dir = profile_dir.dir /\ p.ext = "parquet" /\ fs[p].kind = "parquet"}

\* The positions of the explicit list whose path does not exist.
MissingAt == {k \in 1..Len(specific_plates.value) : fs[Listed[k]].kind = "absent"}

\* The shared features a file's table lacks.
Lacks(p) == Range(shared_features.value) \ Range(Source(p).cols)
LackingAt == {k \in 1..Len(files_to_load) : Lacks(files_to_load[k]) # {}}

----------------------------------------------------------------------------
\* C1: with an explicit list holding a missing path, the call fails with a
\* file-not-found error naming the first missing path of the list, and no file
\* has been read: all existence checks come before the first read.
C1_FailFast ==
    /\ (Explicit /\ MissingAt # {}) =>
          /\ readLog = <<>> /\ loaded_profiles = <<>>
          /\ pc \in {"validate", "exists"}
          /\ status # "returned"
          /\ status = "raised" =>
                /\ pc = "exists" /\ i = Min(MissingAt)
                /\ error = Err("FileNotFoundError", {Listed[Min(MissingAt)]}, {}, {})
    /\ (Explicit /\ readLog # <<>>) => MissingAt = {} /\ pc \in {"load", "concat"}

C1_Witness ==
    /\ Explicit /\ MissingAt # {} /\ Min(MissingAt) = 2
    /\ status = "raised" /\ error.kind = "FileNotFoundError"

\* C2: when the shared features are feature columns of every file, each loaded
\* table is the file's metadata columns followed by the shared features, with
\* the file's values, and the returned table's feature columns are the shared
\* features in the given order.
C2_Projection ==
    (/\ WellTyped /\ shared_features.given /\ pc \in {"load", "concat"}
     /\ \A k \in 1..Len(files_to_load) :
           Range(shared_features.value) \subseteq Range(FeaturesOf(Source(files_to_load[k]))))
    =>
    /\ \A k \in 1..Len(loaded_profiles) :
          LET src == Source(files_to_load[k])
              df == loaded_profiles[k]
          IN  /\ df.cols = MetaOf(src) \o shared_features.value
              /\ Len(df.rows) = Len(src.rows)
              /\ \A r \in 1..Len(df.rows) : \A c \in 1..Len(df.cols) :
                    df.rows[r][c] = Cell(src, r, df.cols[c])
    /\ status = "returned" =>
          /\ FeaturesOf(result) = shared_features.value
          /\ \A r \in 1..Len(result.rows) : Len(result.rows[r]) = Len(result.cols)

C2_Witness ==
    /\ WellTyped /\ status = "returned" /\ Len(loaded_profiles) = 2
    /\ shared_features = Some(<<Feat("F2"), Feat("F1")>>)
    /\ result.cols = <<Meta("Plate"), Meta("Well"), Feat("F2"), Feat("F1")>>

\* C3: discovery in a directory of N >= 1 parquet files with one schema, no
\* shared features: the call returns a table with the sum of the files' rows
\* (each row as often as the files hold it) and the files' columns.
C3_SumOfRows ==
    (/\ Discover /\ ~shared_features.given
     /\ InDirectory # {}
     /\ \A p, q \in InDirectory : Source(p).cols = Source(q).cols)
    =>
    /\ status # "raised"
    /\ status = "returned" =>
          LET files == Perms(InDirectory)
              one == CHOOSE f \in files : TRUE
              all == StackRows([k \in 1..Len(one) |-> Source(one[k])])
          IN  /\ Len(result.rows) = SumTo([k \in 1..Len(one) |-> Len(Source(one[k]).rows)], Len(one))
              /\ SameBag(result.rows, all)
              /\ \A p \in InDirectory : Range(result.cols) = Range(Source(p).cols)

C3_Witness ==
    /\ Discover /\ ~shared_features.given /\ status = "returned"
    /\ Cardinality(InDirectory) = 2 /\ Len(result.rows) = 5

\* C4: discovery in a directory with no *.parquet file directly under it fails
\* with a not-found error naming the directory, reads nothing and never
\* reaches the concatenation.
C4_EmptyDirectory ==
    (Discover /\ \A p \in Paths : (p.dir = profile_dir.dir /\ p.ext = "parquet") => fs[p].kind = "absent")
    =>
    /\ pc \in {"validate", "glob"}
    /\ readLog = <<>> /\ loaded_profiles = <<>>
    /\ status # "returned"
    /\ status = "raised" => error = Err("FileNotFoundError", {}, {}, {profile_dir.dir})

C4_Witness ==
    /\ Discover /\ InDirectory = {} /\ fs[Notes].kind # "absent"
    /\ status = "raised" /\ pc = "glob" /\ error.dirs = {"profiles"}

\* C5: when the tables reaching the concatenation do not all have the same
\* column set, the call fails with a concatenation error and returns no
\* table; a returned table has the columns of every table it was built from.
C5_MismatchFails ==
    (pc = "concat" /\ Done) =>
    /\ (\E a, b \in 1..Len(loaded_profiles) :
           Range(loaded_profiles[a].cols) # Range(loaded_profiles[b].cols))
       => /\ status = "raised"
          /\ error.kind \in {"ShapeError", "SchemaError"}
          /\ result = NoTable
    /\ status = "returned" =>
          \A k \in 1..Len(loaded_profiles) : loaded_profiles[k].cols = result.cols

C5_Witness ==
    /\ pc = "concat" /\ status = "raised" /\ Len(loaded_profiles) = 2
    /\ Range(loaded_profiles[1].cols) # Range(loaded_profiles[2].cols)

\* C6 as stated: with shared features given, all tables handed to the
\* concatenation have the same column names in the same order, whatever the
\* files' metadata columns.
C6_Original ==
    (shared_features.given /\ pc = "concat") =>
    \A a, b \in 1..Len(loaded_profiles) : loaded_profiles[a].cols = loaded_profiles[b].cols

\* C6 amended: with shared features given, the tables handed to the
\* concatenation all end with the shared features, and two of them have the
\* same columns in the same order when their files have the same metadata
\* columns in the same order.
C6_SameMetaSameColumns ==
    (shared_features.given /\ pc = "concat") =>
    \A a, b \in 1..Len(loaded_profiles) :
       /\ FeaturesOf(loaded_profiles[a]) = shared_features.value
       /\ MetaOf(Source(files_to_load[a])) = MetaOf(Source(files_to_load[b]))
          => loaded_profiles[a].cols = loaded_profiles[b].cols

C6_Witness ==
    /\ shared_features.given /\ pc = "concat" /\ Len(loaded_profiles) = 2
    /\ Source(files_to_load[1]).cols # Source(files_to_load[2]).cols
    /\ MetaOf(Source(files_to_load[1])) = MetaOf(Source(files_to_load[2]))
    /\ loaded_profiles[1].cols = loaded_profiles[2].cols

\* The first file of the load order that lacks a shared feature is being
\* projected and the call has failed there.
FailedAtLacking ==
    /\ WellTyped /\ shared_features.given
    /\ status = "raised" /\ pc = "load"
    /\ LackingAt # {} /\ i = Min(LackingAt)
    /\ ~HasDuplicate(MetaOf(Source(files_to_load[i])) \o shared_features.value)

\* C7 as stated: the failure at the file lacking a shared feature is a
\* missing-column error naming the file and the column.
C7_Original ==
    FailedAtLacking =>
    /\ error.kind = "ColumnNotFoundError"
    /\ error.cols # {} /\ error.cols \subseteq Lacks(files_to_load[i])
    /\ error.paths = {files_to_load[i]}

\* No list of names handed to select repeats a name, up to the first file
\* lacking a shared feature.
NoRepeatedName ==
    \A k \in 1..Min(LackingAt) :
       ~HasDuplicate(MetaOf(Source(files_to_load[k])) \o shared_features.value)

\* C7 amended: the call fails in the load loop no later than the projection of
\* the first file lacking a shared feature, after the files before the failing
\* one were read and loaded, before any later file is read and before the
\* concatenation; the error names no file; when no selected list of names
\* repeats a name the failure is at that first lacking file and is the
\* missing-column error naming a missing column.
C7_FailsAtProjection ==
    (WellTyped /\ shared_features.given /\ pc \in {"load", "concat"} /\ LackingAt # {})
    =>
    /\ pc = "load" /\ status # "returned"
    /\ i <= Min(LackingAt)
    /\ IsPrefix(readLog, files_to_load)
    /\ Len(readLog) <= Min(LackingAt)
    /\ status = "raised" =>
          /\ readLog = SubSeq(files_to_load, 1, i)
          /\ Len(loaded_profiles) = i - 1
          /\ error.paths = {}
          /\ error.kind \in {"ColumnNotFoundError", "DuplicateError"}
    /\ (status = "raised" /\ NoRepeatedName) =>
          /\ i = Min(LackingAt)
          /\ error.kind = "ColumnNotFoundError"
          /\ error.cols # {} /\ error.cols \subseteq Lacks(files_to_load[i])

C7_Witness ==
    /\ FailedAtLacking /\ i = 2 /\ Len(files_to_load) = 2
    /\ error = Err("ColumnNotFoundError", {}, {Feat("F2")}, {})

\* C8 as stated: two calls with the same arguments on the same file system
\* return identical tables, with an explicit list and with discovery.
C8_Original ==
    (call = 2 /\ status = "returned" /\ first.status = "returned") => result = first.result

\* C8 amended: when the second call returns, so did the first, with the same
\* columns and the same rows counted with repetition; the two tables are
\* identical when the list is explicit or when discovery listed the files in
\* the same order both times.
C8_SameUpToDiscoveryOrder ==
    (call = 2 /\ status = "returned") =>
    /\ first.status = "returned"
    /\ result.cols = first.result.cols
    /\ SameBag(result.rows, first.result.rows)
    /\ (specific_plates.given \/ files_to_load = first.files) => result = first.result

C8_Witness ==
    /\ call = 2 /\ status = "returned" /\ ~specific_plates.given
    /\ files_to_load # first.files
    /\ result # first.result

\* C9: with an explicit list the files are read in list order and the returned
\* rows are the files' rows (projected when shared features are given), file
\* after file in list order, each file's rows in their order, repeated rows
\* and repeated paths kept.
C9_ListOrder ==
    Explicit =>
    /\ IsPrefix(readLog, Listed)
    /\ status = "returned" =>
          LET n == Len(Listed)
              len == [k \in 1..n |-> Len(Source(Listed[k]).rows)]
          IN  /\ readLog = Listed
              /\ Len(result.rows) = SumTo(len, n)
              /\ \A k \in 1..n : \A r \in 1..len[k] : \A c \in 1..Len(result.cols) :
                    result.rows[SumTo(len, k - 1) + r][c] = Cell(Source(Listed[k]), r, result.cols[c])

C9_Witness ==
    /\ Explicit /\ status = "returned"
    /\ Listed = <<P2, P1, P2>> /\ Len(result.rows) = 7
    /\ result.rows[1] = Source(P2).rows[1] /\ result.rows[6] = Source(P2).rows[1]

\* C10: with an empty explicit list the call passes validation, does not scan
\* the directory, reads nothing and reaches the concatenation with no table;
\* it raises no file-not-found error and returns no table.
C10_EmptyList ==
    (DirTypeOk(profile_dir) /\ specific_plates = Some(<<>>)) =>
    /\ pc \in {"validate", "exists", "concat"}
    /\ files_to_load = <<>> /\ readLog = <<>> /\ loaded_profiles = <<>>
    /\ status # "returned"
    /\ error.kind \notin {"FileNotFoundError", "TypeError"}
    /\ status = "raised" => pc = "concat" /\ error.kind = "ValueError"

C10_Witness ==
    /\ DirTypeOk(profile_dir) /\ specific_plates = Some(<<>>)
    /\ InDirectory # {}
    /\ status = "raised" /\ pc = "concat"

====
